---- MODULE Spec2Model ----
(***************************************************************************)
(* Model of the construction-project backend (src/main.py) and of the WBS  *)
(* template provider (src/templates.py).                                   *)
(*                                                                         *)
(* The datastore tables are the state.  Every HTTP handler is one action.  *)
(* The answers of the LLM and the outcome of the inserts whose result the  *)
(* code tests (`if res.data`) are inputs chosen with \E.                   *)
(***************************************************************************)
EXTENDS Integers, Sequences, FiniteSets, TLC

VARIABLES
    projects,         \* table "projects": rows in insert order
    project_members,  \* table "project_members"
    stages,           \* table "stages"
    tasks,            \* table "tasks"
    chat_logs,        \* table "chat_logs"
    leads,            \* table "leads"
    ids,              \* last identifier the datastore generated, per table
    nMut,             \* number of update/delete requests served so far
    last,             \* the last request served: handler, response, effects in order
    persistLog,       \* the inserts attempted by the last generate-schedule, in order
    genInfo,          \* bookkeeping of the last generate-schedule request
    tpl,              \* last call of get_wbs_template: arguments and result
    taskOrigin        \* for every task id generated, the function that inserted the row

vars == <<projects, project_members, stages, tasks, chat_logs, leads, ids, nMut,
          last, persistLog, genInfo, tpl, taskOrigin>>

dbvars == <<projects, project_members, stages, tasks, chat_logs, leads, ids, nMut,
            last, persistLog, genInfo, taskOrigin>>

\* ------------------------------------------------------------------ bounds
MaxProjects == 2
MaxStages == 2
MaxTasks == 7
MaxMembers == 2
MaxChat == 1
MaxLeads == 1
MaxMut == 1
MaxAdded == 2
MaxDepth == 2
MaxBreadth == 2
MaxFloors == 27
MaxTowers == 2

\* None of Python / NULL of the datastore for an identifier column.
NULL == 0
\* A key that is absent from a JSON object or dict.
ABSENT == "<absent>"

\* ------------------------------------------------------------------ helpers
RECURSIVE SumSeq(_)
SumSeq(s) == IF s = <<>> THEN 0 ELSE Head(s) + SumSeq(Tail(s))

RECURSIVE Pow(_, _)
Pow(b, e) == IF e = 0 THEN 1 ELSE b * Pow(b, e - 1)

Min(a, b) == IF a <= b THEN a ELSE b

Range(s) == {s[i] : i \in 1..Len(s)}

Count(s, P(_)) == Len(SelectSeq(s, P))

IsPrefix(s, t) == Len(s) <= Len(t) /\ SubSeq(t, 1, Len(s)) = s

\* ------------------------------------------------------------------ templates.py
Stage(name, desc, ws) == [stage |-> name, desc |-> desc, weather_sensitive |-> ws]

VillaStages ==
    << Stage("Pre-Construction", "Permits, Soil Testing, Site Clearing", FALSE),
       Stage("Foundation", "Excavation, Footings, Slab pouring", TRUE),
       Stage("Structure (Shell)", "Framing, Roof Trusses, Sheathing", TRUE),
       Stage("Rough MEP", "Plumbing, Electrical, HVAC ducts inside walls", FALSE),
       Stage("Insulation & Drywall", "Wall closing, Mudding, Taping", FALSE),
       Stage("Interior Finishes", "Flooring, Cabinets, Painting, Fixtures", FALSE),
       Stage("Exterior Finishes", "Siding, Stucco, Driveway, Landscaping", TRUE),
       Stage("Final Handover", "Punch list, Cleaning, Final Inspection", FALSE) >>

HighRiseBase ==
    << Stage("Site Mobilization", "Fencing, Cranes Setup, Site Office", TRUE),
       Stage("Excavation & Piling", "Deep excavation, Shoring, Piles", TRUE),
       Stage("Substructure (Basement)", "Basement levels, Retaining walls", TRUE),
       Stage("Podium/Lobby Level", "Ground floor high-ceilings, Transfer slabs", TRUE) >>

HighRiseFinishing ==
    << Stage("Facade & Envelope", "Glass curtain wall, Cladding", TRUE),
       Stage("MEP First Fix", "Risers, Main distribution lines", FALSE),
       Stage("Interiors (Fit-out)", "Partitions, Flooring, Ceilings per unit", FALSE),
       Stage("Testing & Commissioning", "Elevator testing, Fire safety systems", FALSE) >>

CommercialStages ==
    << Stage("Site Prep", "Grading, Utilities connection", TRUE),
       Stage("Steel Structure", "Steel erection, Bolting, Decking", TRUE),
       Stage("Building Envelope", "Roofing, Exterior Walls, Glazing", TRUE),
       Stage("Core MEP", "Main HVAC units, Sprinkler mains", FALSE),
       Stage("Tenant Improvements", "Specific fit-out for retail/offices", FALSE) >>

FallbackStages == << Stage("General Construction", "Standard phases", TRUE) >>

\* f"Superstructure (Floors {start}-{end})"
SuperName(start, end) ==
    "Superstructure (Floors " \o ToString(start) \o "-" \o ToString(end) \o ")"

\* f"Column pouring, Slab casting for tower {1 if towers == 1 else 'A/B'}"
SuperDesc(towers) ==
    "Column pouring, Slab casting for tower " \o (IF towers = 1 THEN "1" ELSE "A/B")

\* mutant: the group count without the "+ 1" (the last, partial group is lost)
floor_groups_no_partial(floors) == floors \div 5

\* floor_groups = (floors // 5) + 1
floor_groups(floors) == (floors \div 5) + 1

\* The loop `for i in range(floor_groups)` appending to wbs.
RECURSIVE superstructure_loop(_, _, _, _)
superstructure_loop(i, wbs, floors, towers) ==
    IF i >= floor_groups(floors) THEN wbs
    ELSE LET start == i * 5 + 1
             end == Min((i + 1) * 5, floors)
             wbs1 == IF start <= floors
                     THEN Append(wbs, Stage(SuperName(start, end), SuperDesc(towers), TRUE))
                     ELSE wbs
         IN superstructure_loop(i + 1, wbs1, floors, towers)

\* mutant: the Villa branch tests sub_type == "Villa" only
get_wbs_template_villa_only(project_type, sub_type, floors, towers) ==
    IF project_type = "Residential" /\ sub_type = "Villa" THEN VillaStages
    ELSE IF project_type = "Residential" /\ sub_type = "High-Rise"
         THEN superstructure_loop(0, HighRiseBase, floors, towers) \o HighRiseFinishing
    ELSE IF project_type = "Commercial" THEN CommercialStages
    ELSE FallbackStages

get_wbs_template(project_type, sub_type, floors, towers) ==
    IF project_type = "Residential" /\ sub_type \in {"Villa", "Single Family"}
    THEN VillaStages
    ELSE IF project_type = "Residential" /\ sub_type = "High-Rise"
         THEN superstructure_loop(0, HighRiseBase, floors, towers) \o HighRiseFinishing
    ELSE IF project_type = "Commercial" THEN CommercialStages
    ELSE FallbackStages

ProjectTypes == {"Residential", "Commercial", "Industrial"}
SubTypes == {"Villa", "Single Family", "High-Rise", "Office"}
FloorCounts == (0 - 6)..MaxFloors
TowerCounts == 1..MaxTowers

NoTpl == [project_type |-> "", sub_type |-> "", floors |-> 0, towers |-> 0, wbs |-> <<>>]

\* A call of get_wbs_template with arguments drawn from the bounded sets.
CallTemplate ==
    /\ \E pt \in ProjectTypes, st \in SubTypes, f \in FloorCounts, t \in TowerCounts :
          tpl' = [project_type |-> pt, sub_type |-> st, floors |-> f, towers |-> t,
                  wbs |-> get_wbs_template(pt, st, f, t)]
    /\ UNCHANGED dbvars

\* ------------------------------------------------------------------ inputs
Codes == {"P1", "P2"}
Users == {"u1", "u2"}
\* table "profiles" (read only): the e-mail addresses with a profile, and their user ids
Profiles == [e \in {"a@x.io", "b@x.io"} |-> IF e = "a@x.io" THEN "u1" ELSE "u2"]
Emails == DOMAIN Profiles \cup {"nobody@x.io"}
Messages == {"slab poured"}
\* The project ids that the requests to chat, leads and team name.
RequestProjectIds == {1, 2}
Contexts == {"Execution", "Sales", "Other"}

\* TaskNode: {task_name, assigned_role?, subtasks?}.  An absent or empty 'subtasks'
\* is the empty sequence (line 145 treats both alike).
Node(name, role, subs) == [task_name |-> name, assigned_role |-> role, subtasks |-> subs]

\* The tree of depth d in which every inner node has b subtasks.
RECURSIVE FullTree(_, _)
FullTree(d, b) ==
    Node("t", ABSENT, IF d = 0 THEN <<>> ELSE [i \in 1..b |-> FullTree(d - 1, b)])

Item(name, has_tasks, tl) == [stage_name |-> name, has_tasks |-> has_tasks, tasks |-> tl]

\* A schedule whose second and fourth top-level tasks are identical, with a stage
\* item that has no 'tasks' key.
MixedSchedule ==
    << Item("Site", TRUE,
            << Node("a", "Mason", <<>>),
               Node("b", ABSENT, << Node("c", ABSENT, <<>>), Node("c", ABSENT, <<>>) >>),
               Node("a", "Mason", <<>>) >>),
       Item("Roof", FALSE, <<>>) >>

\* The parsed answers of the LLM to the schedule prompt that the model draws from.
Schedules ==
    { << Item("Foundation", TRUE, << FullTree(d, b) >>) >> :
          d \in 0..MaxDepth, b \in 1..MaxBreadth }
    \cup { MixedSchedule, <<>> }

RECURSIVE NodeCount(_)
NodeCount(tl) ==
    IF tl = <<>> THEN 0
    ELSE 1 + NodeCount(Head(tl).subtasks) + NodeCount(Tail(tl))

\* Number of inserts a schedule asks for: one per stage item and one per task node.
InsertCount(sched) ==
    Len(sched) + SumSeq([i \in 1..Len(sched) |->
                            IF sched[i].has_tasks THEN NodeCount(sched[i].tasks) ELSE 0])

TaskCount(sched) == InsertCount(sched) - Len(sched)

\* Which of the inserts of one request yield no data: none of them, or one.
FailSets(n) == {{}} \cup {{i} : i \in 1..n}

\* ------------------------------------------------------------------ rows
\* null in a column of text (a uuid, a date)
NULLTEXT == "<null>"

\* A row of "tasks"; the columns an insert does not name are null.
TaskRow(id, project_id, stage_id, parent_id, name, role, status) ==
    [id |-> id, project_id |-> project_id, stage_id |-> stage_id,
     parent_task_id |-> parent_id, name |-> name, assigned_role |-> role,
     status |-> status,
     assigned_sub_id |-> NULLTEXT, start_date |-> NULLTEXT, end_date |-> NULLTEXT]

\* ------------------------------------------------------------------ save_recursive_tasks
\* st threads the effect of the inserts through the recursion:
\*   log  the inserts attempted so far, in order, each with the position (path) of
\*        its node in the input, whether it yielded a row, and the row (its id is
\*        NULL when the insert yielded none)
\*   att  number of inserts attempted by the request so far
\*   tid  last task id generated
\* fails: the attempts (by number) for which `res.data` is empty.

\* mutant: the subtasks are persisted with the parent id of their parent (a flat list)
RECURSIVE save_recursive_tasks_flat(_, _, _, _, _, _, _)
save_recursive_tasks_flat(tasks_list, stage_id, parent_id, path, k, st, fails) ==
    IF k > Len(tasks_list) THEN st
    ELSE LET task == tasks_list[k]
             n == st.att + 1
             ok == n \notin fails
             row == TaskRow(IF ok THEN st.tid + 1 ELSE NULL, NULL, stage_id, parent_id,
                            task.task_name,
                            IF task.assigned_role = ABSENT THEN "General"
                            ELSE task.assigned_role, "Not Started")
             st1 == [st EXCEPT !.log = Append(st.log, [stage_id |-> stage_id,
                                                        path |-> Append(path, k),
                                                        ok |-> ok, row |-> row]),
                               !.att = n,
                               !.tid = IF ok THEN st.tid + 1 ELSE st.tid]
             st2 == IF ok /\ task.subtasks # <<>>
                    THEN save_recursive_tasks_flat(task.subtasks, stage_id, parent_id,
                                                   Append(path, k), 1, st1, fails)
                    ELSE st1
         IN save_recursive_tasks_flat(tasks_list, stage_id, parent_id, path, k + 1, st2, fails)

\* mutant: the subtasks of all nodes of a list are persisted after the list itself
\* (level by level instead of depth first)
RECURSIVE save_recursive_tasks_siblings_first(_, _, _, _, _, _, _)
save_recursive_tasks_siblings_first(tasks_list, stage_id, parent_id, path, k, st, fails) ==
    IF k > Len(tasks_list) THEN st
    ELSE LET task == tasks_list[k]
             n == st.att + 1
             ok == n \notin fails
             row == TaskRow(IF ok THEN st.tid + 1 ELSE NULL, NULL, stage_id, parent_id,
                            task.task_name,
                            IF task.assigned_role = ABSENT THEN "General"
                            ELSE task.assigned_role, "Not Started")
             st1 == [st EXCEPT !.log = Append(st.log, [stage_id |-> stage_id,
                                                        path |-> Append(path, k),
                                                        ok |-> ok, row |-> row]),
                               !.att = n,
                               !.tid = IF ok THEN st.tid + 1 ELSE st.tid]
             st2 == save_recursive_tasks_siblings_first(tasks_list, stage_id, parent_id,
                                                        path, k + 1, st1, fails)
         IN IF ok /\ task.subtasks # <<>>
            THEN save_recursive_tasks_siblings_first(task.subtasks, stage_id, row.id,
                                                     Append(path, k), 1, st2, fails)
            ELSE st2

\* for task in tasks_list[k..]: insert; if res.data and task['subtasks']: recurse
RECURSIVE save_recursive_tasks(_, _, _, _, _, _, _)
save_recursive_tasks(tasks_list, stage_id, parent_id, path, k, st, fails) ==
    IF k > Len(tasks_list) THEN st
    ELSE LET task == tasks_list[k]
             n == st.att + 1
             ok == n \notin fails
             row == TaskRow(IF ok THEN st.tid + 1 ELSE NULL, NULL, stage_id, parent_id,
                            task.task_name,
                            IF task.assigned_role = ABSENT THEN "General"
                            ELSE task.assigned_role, "Not Started")
             st1 == [st EXCEPT !.log = Append(st.log, [stage_id |-> stage_id,
                                                        path |-> Append(path, k),
                                                        ok |-> ok, row |-> row]),
                               !.att = n,
                               !.tid = IF ok THEN st.tid + 1 ELSE st.tid]
             st2 == IF ok /\ task.subtasks # <<>>
                    THEN save_recursive_tasks(task.subtasks, stage_id, row.id,
                                              Append(path, k), 1, st1, fails)
                    ELSE st1
         IN save_recursive_tasks(tasks_list, stage_id, parent_id, path, k + 1, st2, fails)

\* ------------------------------------------------------------------ queries
RowsOf(log) == [i \in 1..Len(SelectSeq(log, LAMBDA a : a.ok)) |->
                   SelectSeq(log, LAMBDA a : a.ok)[i].row]

StagesOfProject(ss, pid) == SelectSeq(ss, LAMBDA s : s.project_id = pid)

\* The tasks under the stages of a project (the join the dashboard makes).
TasksOfProject(tt, ss, pid) ==
    SelectSeq(tt, LAMBDA t : \E i \in 1..Len(ss) :
                                 ss[i].id = t.stage_id /\ ss[i].project_id = pid)

\* mutant: the lookup by code finds nothing, so a Project row is always inserted
existing_project_none(code) == SelectSeq(projects, LAMBDA p : FALSE)

\* supabase.table("projects").select("id").eq("code", req.code)
existing_project(code) == SelectSeq(projects, LAMBDA p : p.code = code)
\* mutant: the tasks of a project are found through their stages
tasks_by_project_through_stages(tt, project_id) == TasksOfProject(tt, stages, project_id)

\* select ... .eq("project_id", project_id): a row whose project_id is null matches
\* no value.
tasks_by_project(tt, project_id) ==
    SelectSeq(tt, LAMBDA t : t.project_id # NULL /\ t.project_id = project_id)

\* tasks_res.data[:30]
ContextLimit == 30

\* line 248: the id, name and status of the first 30 tasks the chat selects
task_context(project_id) ==
    LET data == tasks_by_project(tasks, project_id)
    IN [i \in 1..Min(ContextLimit, Len(data)) |->
           [id |-> data[i].id, name |-> data[i].name, status |-> data[i].status]]

\* ------------------------------------------------------------------ history records
NoLast == [op |-> "init", status |-> "", project_id |-> NULL, effects |-> <<>>,
           req |-> <<>>]

Resp(op, status, pid, effects, req) ==
    [op |-> op, status |-> status, project_id |-> pid, effects |-> effects, req |-> req]

NoGen == [valid |-> FALSE, returned |-> FALSE, repeat |-> FALSE, code |-> "",
          schedule |-> <<>>, stage_ok |-> <<>>, project_id |-> NULL, created |-> FALSE, all_ok |-> FALSE,
          proj_rows_before |-> 0, proj_rows_after |-> 0,
          stages_before |-> 0, stages_after |-> 0,
          tasks_before |-> 0, tasks_after |-> 0]

\* ------------------------------------------------------------------ generate_schedule
\* The loop `for item in schedule_data['schedule']` from item k on.  st threads, next
\* to the fields of save_recursive_tasks: sid, the last stage id generated, stages,
\* the Stage rows inserted, and stage_ok, whether the insert of each item yielded a row.
RECURSIVE schedule_loop(_, _, _, _, _)
schedule_loop(sched, k, project_id, st, fails) ==
    IF k > Len(sched) THEN st
    ELSE LET item == sched[k]
             n == st.att + 1
             ok == n \notin fails
             srow == [id |-> st.sid + 1, project_id |-> project_id,
                      name |-> item.stage_name, status |-> "Scheduled"]
             st1 == [st EXCEPT !.att = n,
                               !.sid = IF ok THEN st.sid + 1 ELSE st.sid,
                               !.stages = IF ok THEN Append(st.stages, srow) ELSE st.stages,
                               !.stage_ok = Append(st.stage_ok, ok)]
             st2 == IF ok /\ item.has_tasks
                    THEN save_recursive_tasks(item.tasks, srow.id, NULL, <<k>>, 1, st1, fails)
                    ELSE st1
         IN schedule_loop(sched, k + 1, project_id, st2, fails)

\* POST /projects/generate-schedule.  llm_ok = FALSE: the completion call or the
\* parsing of its answer raises, after the project was found or created.
\* existing.data[0] of a select without an order is any of the rows found.
generate_schedule(code, llm_ok, sched, fails) ==
    \E existing \in {existing_project(code)} :
    \E project_id \in IF existing = <<>> THEN {ids.projects + 1}
                      ELSE {existing[i].id : i \in 1..Len(existing)} :
    \E st \in {IF llm_ok
               THEN schedule_loop(sched, 1, project_id,
                                  [log |-> <<>>, att |-> 0, tid |-> ids.tasks,
                                   sid |-> ids.stages, stages |-> <<>>, stage_ok |-> <<>>], fails)
               ELSE [log |-> <<>>, att |-> 0, tid |-> ids.tasks,
                     sid |-> ids.stages, stages |-> <<>>, stage_ok |-> <<>>]} :
      LET created == existing = <<>>
          projects1 == IF created
                       THEN Append(projects, [id |-> project_id, code |-> code,
                                              status |-> "Planning"])
                       ELSE projects
          stages1 == stages \o st.stages
          tasks1 == tasks \o RowsOf(st.log)
      IN
      /\ created => ids.projects < MaxProjects
      /\ llm_ok => /\ ids.stages + Len(sched) <= MaxStages
                   /\ ids.tasks + TaskCount(sched) <= MaxTasks
      /\ projects' = projects1
      /\ stages' = stages1
      /\ tasks' = tasks1
      /\ ids' = [ids EXCEPT !.projects = IF created THEN project_id ELSE @,
                            !.stages = st.sid, !.tasks = st.tid]
      /\ persistLog' = st.log
      /\ taskOrigin' = taskOrigin \o [i \in 1..(st.tid - ids.tasks) |-> "save_recursive_tasks"]
      /\ genInfo' =
            [valid |-> TRUE, returned |-> llm_ok,
             repeat |-> /\ last.op = "generate_schedule"
                        /\ genInfo.returned /\ llm_ok
                        /\ genInfo.code = code /\ genInfo.schedule = sched,
             code |-> code,
             schedule |-> IF llm_ok THEN sched ELSE <<>>,
             stage_ok |-> st.stage_ok,
             project_id |-> project_id, created |-> created,
             all_ok |-> llm_ok /\ (\A n \in 1..st.att : n \notin fails),
             proj_rows_before |-> Len(existing),
             proj_rows_after |-> Len(SelectSeq(projects1, LAMBDA p : p.code = code)),
             stages_before |-> Len(StagesOfProject(stages, project_id)),
             stages_after |-> Len(StagesOfProject(stages1, project_id)),
             tasks_before |-> Len(TasksOfProject(tasks, stages, project_id)),
             tasks_after |-> Len(TasksOfProject(tasks1, stages1, project_id))]
      /\ last' = Resp("generate_schedule",
                      IF llm_ok THEN "success" ELSE "HTTP500",
                      IF llm_ok THEN project_id ELSE NULL,
                      (IF created THEN <<"projects.insert">> ELSE <<>>) \o <<"llm">>, <<>>)
      /\ UNCHANGED <<project_members, chat_logs, leads, nMut, tpl>>

\* The requests to generate-schedule with a code and an LLM answer from the given sets.
GenerateScheduleIn(codes, scheds) ==
    \E code \in codes :
        \/ generate_schedule(code, FALSE, <<>>, {})
        \/ \E sched \in scheds : \E fails \in FailSets(InsertCount(sched)) :
               generate_schedule(code, TRUE, sched, fails)

GenerateSchedule == GenerateScheduleIn(Codes, Schedules)

\* Requests other than generate-schedule leave no generate-schedule bookkeeping.
NoGenHistory == persistLog' = <<>> /\ genInfo' = NoGen

\* ------------------------------------------------------------------ projects and team
\* POST /projects/create.  ok = FALSE: the insert yields no data (line 173).
create_project_full(owner_id, code, ok) ==
    /\ ids.projects < MaxProjects
    /\ Len(project_members) < MaxMembers
    /\ IF ok
       THEN /\ projects' = Append(projects, [id |-> ids.projects + 1, code |-> code,
                                             status |-> "Planning"])
            /\ project_members' = Append(project_members,
                   [project_id |-> ids.projects + 1, user_id |-> owner_id,
                    role |-> "Owner", status |-> "Active"])
            /\ ids' = [ids EXCEPT !.projects = @ + 1]
            /\ last' = Resp("create_project_full", "success", ids.projects + 1,
                            <<"projects.insert", "project_members.insert">>, <<>>)
       ELSE /\ UNCHANGED <<projects, project_members, ids>>
            /\ last' = Resp("create_project_full", "HTTP500", NULL,
                            <<"projects.insert">>, <<>>)
    /\ NoGenHistory
    /\ UNCHANGED <<stages, tasks, chat_logs, leads, nMut, tpl, taskOrigin>>

CreateProjectIn(owners) ==
    \E owner_id \in owners, code \in Codes, ok \in BOOLEAN :
        create_project_full(owner_id, code, ok)

CreateProject == CreateProjectIn(Users)

\* DELETE /projects/{project_id}
delete_project(project_id) ==
    /\ projects' = SelectSeq(projects, LAMBDA p : p.id # project_id)
    /\ last' = Resp("delete_project", "deleted", project_id, <<"projects.delete">>, <<>>)
    /\ NoGenHistory
    /\ UNCHANGED <<project_members, stages, tasks, chat_logs, leads, ids, nMut, tpl, taskOrigin>>

DeleteProject == \E project_id \in 1..MaxProjects : delete_project(project_id)

\* POST /projects/team/add
add_team_member(project_id, email, role) ==
    /\ Len(project_members) < MaxMembers
    /\ IF email \notin DOMAIN Profiles
       THEN /\ UNCHANGED project_members
            /\ last' = Resp("add_team_member", "HTTP404", project_id,
                            <<"profiles.select">>, <<>>)
       ELSE /\ project_members' = Append(project_members,
                   [project_id |-> project_id, user_id |-> Profiles[email],
                    role |-> role, status |-> "Active"])
            /\ last' = Resp("add_team_member", "Member Added", project_id,
                            <<"profiles.select", "project_members.insert">>, <<>>)
    /\ NoGenHistory
    /\ UNCHANGED <<projects, stages, tasks, chat_logs, leads, ids, nMut, tpl, taskOrigin>>

\* The requests to team/add for a project and an e-mail address from the given sets.
AddTeamMemberIn(project_ids, emails) ==
    \E project_id \in project_ids, email \in emails :
        add_team_member(project_id, email, "Engineer")

AddTeamMember == AddTeamMemberIn(RequestProjectIds, Emails)

\* ------------------------------------------------------------------ tasks CRUD
\* POST /tasks/add.  .single() raises unless exactly one stage has the id.
add_task(stage_id, parent_task_id, name) ==
    LET found == SelectSeq(stages, LAMBDA s : s.id = stage_id)
    IN /\ ids.tasks < MaxTasks
       /\ Count(tasks, LAMBDA t : t.project_id # NULL) < MaxAdded
       /\ IF Len(found) # 1
          THEN /\ UNCHANGED <<tasks, ids, taskOrigin>>
               /\ last' = Resp("add_task", "HTTP500", NULL, <<"stages.select">>, <<>>)
          ELSE /\ tasks' = Append(tasks,
                      TaskRow(ids.tasks + 1, found[1].project_id, stage_id,
                              parent_task_id, name, "General", "Not Started"))
               /\ ids' = [ids EXCEPT !.tasks = @ + 1]
               /\ taskOrigin' = Append(taskOrigin, "add_task")
               /\ last' = Resp("add_task", "added", found[1].project_id,
                               <<"stages.select", "tasks.insert">>, <<>>)
       /\ NoGenHistory
       /\ UNCHANGED <<projects, project_members, stages, chat_logs, leads, nMut, tpl>>

TaskIds == {tasks[i].id : i \in 1..Len(tasks)}

\* The parent id of a request is None or the id of a task that exists.
AddTaskUnder(parent_ids) ==
    \E stage_id \in 1..MaxStages, parent_task_id \in parent_ids :
        add_task(stage_id, parent_task_id, "extra")

AddTask == AddTaskUnder({NULL} \cup TaskIds)

\* PATCH /tasks/{task_id}: the fields of the request that are not None are written.
update_task(task_id, name, status) ==
    /\ nMut < MaxMut
    /\ nMut' = nMut + 1
    /\ tasks' = [i \in 1..Len(tasks) |->
                   IF tasks[i].id = task_id
                   THEN [tasks[i] EXCEPT
                           !.name = IF name = ABSENT THEN @ ELSE name,
                           !.status = IF status = ABSENT THEN @ ELSE status]
                   ELSE tasks[i]]
    /\ last' = Resp("update_task", "updated", NULL, <<"tasks.update">>, <<>>)
    /\ NoGenHistory
    /\ UNCHANGED <<projects, project_members, stages, chat_logs, leads, ids, tpl, taskOrigin>>

UpdateTask ==
    \E task_id \in 1..MaxTasks, name \in {ABSENT, "renamed"},
       status \in {ABSENT, "Completed"} :
        update_task(task_id, name, status)

\* DELETE /tasks/{task_id}
delete_task(task_id) ==
    /\ nMut < MaxMut
    /\ nMut' = nMut + 1
    /\ tasks' = SelectSeq(tasks, LAMBDA t : t.id # task_id)
    /\ last' = Resp("delete_task", "deleted", NULL, <<"tasks.delete">>, <<>>)
    /\ NoGenHistory
    /\ UNCHANGED <<projects, project_members, stages, chat_logs, leads, ids, tpl, taskOrigin>>

DeleteTask == \E task_id \in 1..MaxTasks : delete_task(task_id)

\* ------------------------------------------------------------------ lead qualifier
\* The parsed JSON of the qualifier prompt, as far as the callers read it: whether it
\* has "scoring", whether that has "score", the score, and extracted_data.name.
AIResult(has_scoring, has_score, score, name) ==
    [has_scoring |-> has_scoring, has_score |-> has_score, score |-> score, name |-> name]

LeadScores == {0 - 5, 0, 1, 100}

AIResults ==
    {AIResult(TRUE, TRUE, sc, "Ann") : sc \in LeadScores}
    \cup {AIResult(TRUE, FALSE, 0, ABSENT), AIResult(FALSE, FALSE, 0, ABSENT)}

\* What the completion call and json.loads give: an exception, or a parsed object.
QualifierAnswers ==
    {[failed |-> TRUE, json |-> AIResult(FALSE, FALSE, 0, ABSENT)]}
    \cup {[failed |-> FALSE, json |-> j] : j \in AIResults}

\* try: return json.loads(...)  except: return {"scoring": {"score": 0}}
qualify_lead_with_ai(answer) ==
    IF answer.failed THEN AIResult(TRUE, TRUE, 0, ABSENT) ELSE answer.json

\* ai_result.get("scoring", {}).get("score", 0)
score_of(ai_result) ==
    IF ai_result.has_scoring /\ ai_result.has_score THEN ai_result.score ELSE 0

\* mutant: the threshold admits a score of 0
lead_threshold_inclusive(ai_result) == score_of(ai_result) >= 0

\* line 274: ... > 0
lead_threshold(ai_result) == score_of(ai_result) > 0

LeadRow(project_id, name, source, lead_score) ==
    [project_id |-> project_id, name |-> name, source |-> source,
     lead_score |-> lead_score, status |-> "New"]

\* ------------------------------------------------------------------ chat
ChatRequest(project_id, user_id, message, context) ==
    [project_id |-> project_id, user_id |-> user_id, message |-> message,
     context |-> context]

\* What `last` keeps of a chat request: the request, and for "Sales" whether the
\* qualifier's LLM call failed and the score of its assessment.
ChatInfo(req, failed, score) ==
    [project_id |-> req.project_id, user_id |-> req.user_id, message |-> req.message,
     context |-> req.context, failed |-> failed, score |-> score,
     task_context |-> IF req.context = "Execution" THEN task_context(req.project_id)
                      ELSE <<>>]

\* mutant: the message is logged only on the branches that call the LLM
log_message_llm_branches(req) ==
    IF req.context \in {"Execution", "Sales"}
    THEN Append(chat_logs, [project_id |-> req.project_id, user_id |-> req.user_id,
                            message_text |-> req.message])
    ELSE chat_logs

\* lines 240-242: the insert into chat_logs
log_message(req) ==
    Append(chat_logs, [project_id |-> req.project_id, user_id |-> req.user_id,
                       message_text |-> req.message])

\* The parsed answers of the LLM to the "Execution" prompt: an exception, a REPLY, an
\* UPDATE with its keys, an UPDATE that lacks "task_id" or "new_status".
ExecAnswer(kind, task_id, new_status) ==
    [kind |-> kind, task_id |-> task_id, new_status |-> new_status]

ExecAnswers ==
    {ExecAnswer(k, NULL, "") : k \in {"fail", "REPLY", "UPDATE_NOKEY"}}
    \cup {ExecAnswer("UPDATE", t, ns) :
             t \in 1..(ids.tasks + 1), ns \in {"Completed", "In Progress"}}

\* POST /chat/send
send_chat_update(req, llm, answer) ==
    /\ Len(chat_logs) < MaxChat
    /\ chat_logs' = log_message(req)
    /\ IF req.context = "Execution"
       THEN /\ IF llm.kind = "UPDATE"
               THEN /\ nMut < MaxMut
                    /\ nMut' = nMut + 1
                    /\ tasks' = [i \in 1..Len(tasks) |->
                                   IF tasks[i].id = llm.task_id
                                   THEN [tasks[i] EXCEPT !.status = llm.new_status]
                                   ELSE tasks[i]]
                    /\ last' = Resp("send_chat_update", "Action Taken", req.project_id,
                                    <<"chat_logs.insert", "tasks.select", "llm",
                                      "tasks.update">>, ChatInfo(req, FALSE, 0))
               ELSE /\ UNCHANGED <<tasks, nMut>>
                    /\ last' = Resp("send_chat_update",
                                    IF llm.kind = "REPLY" THEN "Replied" ELSE "Error",
                                    req.project_id,
                                    <<"chat_logs.insert", "tasks.select", "llm">>,
                                    ChatInfo(req, FALSE, 0))
            /\ UNCHANGED leads
       ELSE IF req.context = "Sales"
       THEN LET ai_result == qualify_lead_with_ai(answer)
            IN /\ IF lead_threshold(ai_result)
                  THEN /\ Len(leads) < MaxLeads
                       /\ leads' = Append(leads,
                              LeadRow(req.project_id,
                                      IF ai_result.name = ABSENT THEN "New Lead"
                                      ELSE ai_result.name,
                                      "Chat",
                                      IF ai_result.has_score THEN ai_result.score
                                      ELSE 50))
                       /\ last' = Resp("send_chat_update", "Lead Detected",
                                       req.project_id,
                                       <<"chat_logs.insert", "llm", "leads.insert">>,
                                       ChatInfo(req, answer.failed, score_of(ai_result)))
                  ELSE /\ UNCHANGED leads
                       /\ last' = Resp("send_chat_update", "Message Logged",
                                       req.project_id, <<"chat_logs.insert", "llm">>,
                                       ChatInfo(req, answer.failed, score_of(ai_result)))
               /\ UNCHANGED <<tasks, nMut>>
       ELSE /\ UNCHANGED <<tasks, nMut, leads>>
            /\ last' = Resp("send_chat_update", "Message Logged", req.project_id,
                            <<"chat_logs.insert">>, ChatInfo(req, FALSE, 0))
    /\ NoGenHistory
    /\ UNCHANGED <<projects, project_members, stages, ids, tpl, taskOrigin>>

\* One answer is drawn for the LLM call the branch makes; the call the branch
\* does not make has a fixed answer that is never read.
ChatAnswers(context) ==
    IF context = "Execution"
    THEN {<<llm, CHOOSE a \in QualifierAnswers : a.failed>> : llm \in ExecAnswers}
    ELSE IF context = "Sales"
    THEN {<<ExecAnswer("fail", NULL, ""), answer>> : answer \in QualifierAnswers}
    ELSE {<<ExecAnswer("fail", NULL, ""), CHOOSE a \in QualifierAnswers : a.failed>>}

\* The requests to chat/send for the given projects by the given users, with a
\* context from the given set, where an UPDATE the LLM answers names one of task_ids.
ChatSendFor(project_ids, users, contexts, task_ids) ==
    \E project_id \in project_ids, user_id \in users, message \in Messages,
       context \in contexts :
        \E la \in {x \in ChatAnswers(context) :
                      x[1].kind = "UPDATE" => x[1].task_id \in task_ids} :
            send_chat_update(ChatRequest(project_id, user_id, message, context),
                             la[1], la[2])

ChatSendIn(contexts) ==
    ChatSendFor(RequestProjectIds, Users, contexts, 1..(ids.tasks + 1))

ChatSend == ChatSendIn(Contexts)

\* ------------------------------------------------------------------ scheduler
\* An item of plan["assignments"]: a member_id the item lacks is ABSENT; lacks names
\* the keys among 'task_id' and 'hours' that the item lacks.
Assignment(task_id, member_id, hours, lacks) ==
    [task_id |-> task_id, member_id |-> member_id, hours |-> hours, lacks |-> lacks]

\* The day of the request, as a day number; the dates of the model are day numbers.
Today == 1

\* date.strftime("%Y-%m-%d")
strftime(day) == "day " \o ToString(day)

\* days = max(1, item['hours'] // 8)
days_of(hours) == IF hours \div 8 >= 1 THEN hours \div 8 ELSE 1

\* The loop `for item in plan.get("assignments", [])` from item k on.  st: the table
\* "tasks", the number of updates made, and whether an item raised (a KeyError for
\* 'hours' or 'task_id', raised before the update of that item is executed).
RECURSIVE assign_loop(_, _, _)
assign_loop(items, k, st) ==
    IF k > Len(items) THEN st
    ELSE LET item == items[k]
         IN IF item.member_id = ABSENT
            THEN assign_loop(items, k + 1, st)
            ELSE IF item.lacks # {}
            THEN [st EXCEPT !.raised = TRUE]
            ELSE assign_loop(items, k + 1,
                   [st EXCEPT
                      !.tasks = [i \in 1..Len(@) |->
                                   IF @[i].id = item.task_id
                                   THEN [@[i] EXCEPT
                                           !.assigned_sub_id = item.member_id,
                                           !.start_date = strftime(Today),
                                           !.end_date = strftime(Today + days_of(item.hours)),
                                           !.status = "In Progress"]
                                   ELSE @[i]],
                      !.updates = @ + 1])

\* The parsed answers of the LLM to the scheduler prompt: an exception, or a plan
\* with or without the key "assignments".
Plan(failed, assignments) == [failed |-> failed, assignments |-> assignments]

\* The task ids a plan names: a task of the prompt, the first task of the table
\* (of the prompt or not), and an id no task has.
PlanTaskIds(read) == {read[1], 1, ids.tasks + 1}

\* The items of a plan: 16 hours for one of the task ids, 4 hours for a task of the
\* prompt, an item without member_id, and items that lack 'hours' or 'task_id'.
Assignments(read) ==
    {Assignment(t, "u1", 16, {}) : t \in PlanTaskIds(read)}
    \cup {Assignment(read[1], "u1", 4, {}), Assignment(read[1], ABSENT, 16, {}),
          Assignment(1, "u1", NULL, {"hours"}), Assignment(NULL, "u1", 16, {"task_id"})}

\* The plans the LLM answers to a prompt that lists the tasks read.
Plans(read) ==
    {Plan(TRUE, <<>>), Plan(FALSE, <<>>)}
    \cup {Plan(FALSE, <<a>>) : a \in Assignments(read)}
    \cup {Plan(FALSE, <<Assignment(t, "u1", 16, {}), Assignment(1, "u1", NULL, {"hours"})>>) :
              t \in PlanTaskIds(read)}

\* POST /projects/auto-schedule.  The LLM is called, and answers one of Plans, only
\* when there are tasks and members.
auto_schedule(project_id) ==
    LET open == SelectSeq(tasks_by_project(tasks, project_id),
                          LAMBDA t : t.status = "Not Started")
        members == SelectSeq(project_members, LAMBDA m : m.project_id = project_id)
        read == [i \in 1..Len(open) |-> open[i].id]
    IN /\ IF open = <<>>
          THEN /\ UNCHANGED <<tasks, nMut>>
               /\ last' = Resp("auto_schedule", "No tasks to schedule", project_id,
                               <<"tasks.select", "project_members.select">>,
                               [read |-> read, tasks_updated |-> 0])
          ELSE IF members = <<>>
          THEN /\ UNCHANGED <<tasks, nMut>>
               /\ last' = Resp("auto_schedule", "No team members found", project_id,
                               <<"tasks.select", "project_members.select">>,
                               [read |-> read, tasks_updated |-> 0])
          ELSE \E st \in {IF plan.failed
                           THEN [tasks |-> tasks, updates |-> 0, raised |-> TRUE]
                           ELSE assign_loop(plan.assignments, 1,
                                    [tasks |-> tasks, updates |-> 0, raised |-> FALSE]) :
                           plan \in Plans(read)} :
               /\ nMut < MaxMut
               /\ nMut' = nMut + 1
               /\ tasks' = st.tasks
               /\ last' = Resp("auto_schedule",
                               IF st.raised THEN "Error" ELSE "Scheduled", project_id,
                               <<"tasks.select", "project_members.select", "llm">>
                                  \o [i \in 1..st.updates |-> "tasks.update"],
                               [read |-> read, tasks_updated |-> st.updates])
       /\ NoGenHistory
       /\ UNCHANGED <<projects, project_members, stages, chat_logs, leads, ids, tpl,
                      taskOrigin>>

\* The requests to auto-schedule for a project from the given set.
AutoScheduleFor(project_ids) == \E project_id \in project_ids : auto_schedule(project_id)

AutoSchedule == AutoScheduleFor(RequestProjectIds)

\* ------------------------------------------------------------------ leads
\* POST /leads/ingest
ingest_lead(project_id, source, answer) ==
    LET ai_result == qualify_lead_with_ai(answer)
    IN /\ Len(leads) < MaxLeads
       /\ leads' = Append(leads,
              LeadRow(project_id,
                      IF ai_result.name = ABSENT THEN "Unknown" ELSE ai_result.name,
                      source, score_of(ai_result)))
       /\ last' = Resp("ingest_lead", "processed", project_id, <<"llm", "leads.insert">>,
                       [project_id |-> project_id, failed |-> answer.failed,
                        score |-> score_of(ai_result)])
       /\ NoGenHistory
       /\ UNCHANGED <<projects, project_members, stages, tasks, chat_logs, ids, nMut, tpl, taskOrigin>>

IngestLead ==
    \E project_id \in RequestProjectIds, answer \in QualifierAnswers :
        ingest_lead(project_id, "Manual", answer)

\* ------------------------------------------------------------------ specification
Init ==
    /\ projects = <<>>
    /\ project_members = <<>>
    /\ stages = <<>>
    /\ tasks = <<>>
    /\ chat_logs = <<>>
    /\ leads = <<>>
    /\ ids = [projects |-> 0, stages |-> 0, tasks |-> 0]
    /\ nMut = 0
    /\ last = NoLast
    /\ persistLog = <<>>
    /\ genInfo = NoGen
    /\ tpl = NoTpl
    /\ taskOrigin = <<>>

\* Every handler, with every input of the model.
Next ==
    \/ GenerateSchedule
    \/ CreateProject
    \/ DeleteProject
    \/ AddTeamMember
    \/ ChatSend
    \/ AddTask
    \/ UpdateTask
    \/ DeleteTask
    \/ IngestLead
    \/ AutoSchedule

Spec == Init /\ [][Next]_vars

\* The template provider alone: it reads and writes none of the tables.
NextT == CallTemplate

SpecT == Init /\ [][NextT]_vars

\* The recursive persister under generate-schedule, with every schedule of the model.
\* The persister reads the stage id and the task id counter only.
NextPersist == GenerateScheduleIn({"P1"}, Schedules)

SpecPersist == Init /\ [][NextPersist]_vars

\* The handlers that read or write the table "projects".
SmallSchedules == { << Item("Foundation", TRUE, << FullTree(1, 1) >>) >> }

NextProjects ==
    \/ GenerateScheduleIn(Codes, SmallSchedules)
    \/ CreateProjectIn({"u1"})
    \/ DeleteProject

SpecProjects == Init /\ [][NextProjects]_vars

\* The handlers that write the table "project_members" or generate a project id.
NextMembers ==
    \/ CreateProject
    \/ AddTeamMember
    \/ DeleteProject
    \/ GenerateScheduleIn(Codes, {<<>>})

SpecMembers == Init /\ [][NextMembers]_vars

\* The handlers that write the tables "tasks" and "stages".
TaskSchedules == { << Item("Foundation", TRUE, << FullTree(1, 1) >>) >> }

NextTasks ==
    \/ GenerateScheduleIn({"P1"}, TaskSchedules)
    \/ AddTask
    \/ UpdateTask
    \/ DeleteTask
    \/ ChatSendIn({"Execution"})

SpecTasks == Init /\ [][NextTasks]_vars

\* The handlers that write "chat_logs" and "leads", and those that write the tasks
\* the chat reads and updates.
ChatSchedules == { << Item("Foundation", TRUE, << FullTree(0, 1) >>) >> }

NextChat ==
    \/ ChatSend
    \/ GenerateScheduleIn({"P1"}, ChatSchedules)
    \/ UpdateTask
    \/ DeleteTask

SpecChat == Init /\ [][NextChat]_vars

\* The handlers that insert Task rows, those that read the tasks of a project by
\* project_id (the "Execution" chat and auto-schedule), and team-add, which gives
\* auto-schedule the members it needs to reach its LLM call.  The one project is
\* project 1; the tasks added are top-level tasks; the chat updates the first task
\* of the table or names an id no task has.
NextScheduler ==
    \/ GenerateScheduleIn({"P1"}, ChatSchedules)
    \/ AddTaskUnder({NULL})
    \/ AddTeamMemberIn({1}, {"a@x.io"})
    \/ ChatSendFor({1}, {"u1"}, {"Execution"}, {1, ids.tasks + 1})
    \/ AutoScheduleFor({1})

SpecScheduler == Init /\ [][NextScheduler]_vars

\* The callers of the lead qualifier: the handlers that write the table "leads".
NextLeads ==
    \/ ChatSendIn({"Sales"})
    \/ IngestLead

SpecLeads == Init /\ [][NextLeads]_vars

\* ------------------------------------------------------------------ C9, C10
\* The 5-floor groups i in 0..(f div 5) whose start i*5+1 is at most f.
EmittedGroups(f) == {i \in 0..(f \div 5) : i * 5 + 1 <= f}

IsHighRiseCall == tpl.project_type = "Residential" /\ tpl.sub_type = "High-Rise"

\* C9: for every floor count f and tower count t the High-Rise template has exactly
\* 4 + g + 4 stages, g the number of 5-floor groups whose start is at most f; the
\* groups stand in increasing order between the 4 base stages and the 4 finishing
\* stages, group i named "Superstructure (Floors A-B)" with A = i*5+1 and
\* B = min((i+1)*5, f); f = 12 gives the groups 1-5, 6-10, 11-12 and 11 stages.
C9_HighRiseStages ==
    IsHighRiseCall =>
        LET f == tpl.floors
            g == Cardinality(EmittedGroups(f))
            wbs == tpl.wbs
        IN /\ Len(wbs) = 4 + g + 4
           /\ \A k \in 1..4 : wbs[k] = HighRiseBase[k]
           /\ \A k \in 1..4 : wbs[4 + g + k] = HighRiseFinishing[k]
           /\ \A i \in 0..(g - 1) :
                 wbs[4 + i + 1].stage =
                     "Superstructure (Floors " \o ToString(i * 5 + 1) \o "-"
                     \o ToString(IF (i + 1) * 5 <= f THEN (i + 1) * 5 ELSE f) \o ")"
           /\ f = 12 => /\ Len(wbs) = 11
                        /\ wbs[5].stage = "Superstructure (Floors 1-5)"
                        /\ wbs[6].stage = "Superstructure (Floors 6-10)"
                        /\ wbs[7].stage = "Superstructure (Floors 11-12)"

\* A High-Rise call with 12 floors was made and returned 11 stages.
C9_Witness ==
    IsHighRiseCall /\ tpl.floors = 12 /\ tpl.towers = 2 /\ Len(tpl.wbs) = 11

\* C10: outside the High-Rise branch the template follows the policy table, whatever
\* the floor and tower arguments: Residential Villa / Single Family give the fixed 8
\* stages Pre-Construction ... Final Handover, Commercial with any sub-type the fixed 5
\* stages, and every other pair that is not Residential/High-Rise the single fallback
\* stage "General Construction".
C10_PolicyTable ==
    (tpl.project_type # "" /\ ~IsHighRiseCall) =>
        LET wbs == tpl.wbs
            villa == tpl.project_type = "Residential"
                     /\ tpl.sub_type \in {"Villa", "Single Family"}
            commercial == tpl.project_type = "Commercial"
        IN /\ villa => /\ Len(wbs) = 8
                       /\ wbs = VillaStages
                       /\ wbs[1].stage = "Pre-Construction"
                       /\ wbs[8].stage = "Final Handover"
           /\ commercial => /\ Len(wbs) = 5
                            /\ wbs = CommercialStages
           /\ (~villa /\ ~commercial) =>
                  /\ Len(wbs) = 1
                  /\ wbs[1].stage = "General Construction"

\* A Single Family call with more than one floor and tower returned the 8 stages.
C10_Witness ==
    /\ tpl.project_type = "Residential" /\ tpl.sub_type = "Single Family"
    /\ tpl.floors = 12 /\ tpl.towers = 2
    /\ Len(tpl.wbs) = 8

\* ------------------------------------------------------------------ C1, C5
\* The last request was a generate-schedule whose LLM answer was parsed.
Persisted == last.op = "generate_schedule" /\ genInfo.returned

\* The node of the schedule at a path <<item, i1, ..., in>>.
RECURSIVE NodeIn(_, _)
NodeIn(tl, p) == IF Len(p) = 1 THEN tl[p[1]] ELSE NodeIn(tl[p[1]].subtasks, Tail(p))

NodeAt(sched, p) == NodeIn(sched[p[1]].tasks, Tail(p))

\* The paths of the nodes of a task list, each prefixed by pre.
RECURSIVE PathsIn(_, _)
PathsIn(tl, pre) ==
    UNION {{Append(pre, k)} \cup PathsIn(tl[k].subtasks, Append(pre, k)) : k \in 1..Len(tl)}

AllPaths(sched) ==
    UNION {IF sched[k].has_tasks THEN PathsIn(sched[k].tasks, <<k>>) ELSE {} :
              k \in 1..Len(sched)}

Front(p) == SubSeq(p, 1, Len(p) - 1)

\* The attempt of the last request for the node at path p (there is at most one).
AttemptsAt(p) == SelectSeq(persistLog, LAMBDA a : a.path = p)

\* The rows of the table "tasks" that the last request inserted.
NewRows == SelectSeq(tasks, LAMBDA t : \E i \in 1..Len(persistLog) :
                                          persistLog[i].ok /\ persistLog[i].row.id = t.id)

\* The stage row the caller inserted for item k of the schedule.
StageRowOf(stage_id) == SelectSeq(stages, LAMBDA s : s.id = stage_id)

\* C1: the recursive persister creates one Task row per node when every insert yields
\* an id (sum of b^i, i in 0..d, for the tree of depth d and breadth b); each row has
\* status "Not Started", the stage id of the caller and the id of its parent node's row
\* as parent_task_id (the caller's parent id, None, for a top-level node); when the
\* insert of a node yields no id, no row is created for its descendants, while the
\* nodes that have no failed ancestor, its later siblings among them, are persisted.
C1_PersisterRows ==
    Persisted =>
        LET sched == genInfo.schedule
            log == persistLog
        IN /\ genInfo.all_ok => Len(NewRows) = TaskCount(sched)
           /\ \A d \in 0..MaxDepth, b \in 1..MaxBreadth :
                 (genInfo.all_ok /\ sched = << Item("Foundation", TRUE, << FullTree(d, b) >>) >>)
                     => Len(NewRows) = SumSeq([i \in 1..(d + 1) |-> Pow(b, i - 1)])
           /\ Len(NewRows) = Count(log, LAMBDA a : a.ok)
           /\ \A i \in 1..Len(log) :
                 LET a == log[i]
                     inTable == \E j \in 1..Len(tasks) : tasks[j] = a.row
                 IN /\ a.path \in AllPaths(sched)
                    /\ \A j \in 1..Len(log) : log[j].path = a.path => j = i
                    /\ a.ok <=> inTable
                    /\ a.row.status = "Not Started"
                    /\ a.row.name = NodeAt(sched, a.path).task_name
                    /\ Len(StageRowOf(a.row.stage_id)) = 1
                    /\ StageRowOf(a.row.stage_id)[1].name = sched[a.path[1]].stage_name
                    /\ StageRowOf(a.row.stage_id)[1].project_id = genInfo.project_id
                    /\ IF Len(a.path) = 2
                       THEN a.row.parent_task_id = NULL
                       ELSE /\ Len(AttemptsAt(Front(a.path))) = 1
                            /\ AttemptsAt(Front(a.path))[1].ok
                            /\ a.row.parent_task_id = AttemptsAt(Front(a.path))[1].row.id
           /\ \A p \in AllPaths(sched) :
                 (AttemptsAt(p) # <<>>) <=>
                     /\ genInfo.stage_ok[p[1]]
                     /\ \A n \in 2..(Len(p) - 1) :
                           /\ AttemptsAt(SubSeq(p, 1, n)) # <<>>
                           /\ AttemptsAt(SubSeq(p, 1, n))[1].ok

\* The full tree of depth 2 and breadth 2 was persisted as 7 rows.
C1_Witness ==
    /\ Persisted /\ genInfo.all_ok
    /\ genInfo.schedule = << Item("Foundation", TRUE, << FullTree(2, 2) >>) >>
    /\ Len(NewRows) = 7
    /\ \E i \in 1..Len(tasks) : tasks[i].parent_task_id # NULL

\* The insert of an inner node with subtasks failed: its subtasks were not attempted,
\* and its later sibling was persisted.
C1_WitnessDropped ==
    /\ Persisted /\ genInfo.schedule = MixedSchedule
    /\ AttemptsAt(<<1, 2>>) # <<>> /\ ~AttemptsAt(<<1, 2>>)[1].ok
    /\ AttemptsAt(<<1, 2, 1>>) = <<>>
    /\ AttemptsAt(<<1, 3>>) # <<>> /\ AttemptsAt(<<1, 3>>)[1].ok
    /\ Len(NewRows) = 2

\* p comes before q in the depth-first, left-to-right order of the input: p is a proper
\* prefix of q, or p is smaller at the first position where they differ.
PathBefore(p, q) ==
    \/ Len(p) < Len(q) /\ SubSeq(q, 1, Len(p)) = p
    \/ \E m \in 1..Min(Len(p), Len(q)) :
          /\ SubSeq(p, 1, m - 1) = SubSeq(q, 1, m - 1)
          /\ p[m] < q[m]

\* C5: the persister inserts in input order: siblings in the order of the input
\* sequence, a node before its subtasks, the whole subtree of a node before its next
\* sibling; the rows stand in the table in that order with increasing ids; and two
\* nodes with the same content give two rows.
C5_InsertOrder ==
    Persisted =>
        /\ \A i, j \in 1..Len(persistLog) :
              i < j => PathBefore(persistLog[i].path, persistLog[j].path)
        /\ \A i, j \in 1..Len(NewRows) :
              i < j => /\ NewRows[i].id < NewRows[j].id
                       /\ \E m, n \in 1..Len(persistLog) :
                             /\ m < n
                             /\ persistLog[m].row = NewRows[i]
                             /\ persistLog[n].row = NewRows[j]
        /\ \A i, j \in 1..Len(persistLog) :
              (i # j /\ persistLog[i].ok /\ persistLog[j].ok)
                  => persistLog[i].row.id # persistLog[j].row.id

\* The mixed schedule was persisted in full: the subtasks of the second node stand
\* before the third node, and the two identical nodes "a" gave two rows.
C5_Witness ==
    /\ Persisted /\ genInfo.all_ok /\ genInfo.schedule = MixedSchedule
    /\ Len(NewRows) = 5
    /\ NewRows[1].name = "a" /\ NewRows[5].name = "a" /\ NewRows[1].id # NewRows[5].id
    /\ NewRows[2].name = "b" /\ NewRows[3].name = "c" /\ NewRows[4].name = "c"
    /\ NewRows[3].parent_task_id = NewRows[2].id

\* ------------------------------------------------------------------ C2
\* C2: after any sequence of the task-writing handlers, the parent of a Task, if
\* present, belongs to the same Stage as the Task.
C2_ParentSameStage ==
    \A i, j \in 1..Len(tasks) :
        tasks[j].id = tasks[i].parent_task_id => tasks[j].stage_id = tasks[i].stage_id

\* ------------------------------------------------------------------ C3
CodeRows(pp, code) == SelectSeq(pp, LAMBDA p : p.code = code)

\* C3: a generate-schedule request that directly follows one with the same code and the
\* same LLM answer inserts no Project row; when at most one Project row had the code
\* before the first request, both return the same project id and exactly one row has the
\* code afterwards; when every insert of both yields a row, the second request creates
\* as many Stage and Task rows as the first (nothing is deduplicated), so the stages and
\* tasks of a project that had none before the first request double.
C3_Step ==
    (last'.op = "generate_schedule" /\ genInfo'.repeat) =>
        LET first == genInfo
            second == genInfo'
        IN /\ ~second.created
           /\ projects' = projects
           /\ first.proj_rows_before <= 1 =>
                 /\ second.project_id = first.project_id
                 /\ last'.project_id = last.project_id
                 /\ Len(CodeRows(projects', second.code)) = 1
           /\ (first.all_ok /\ second.all_ok) =>
                 /\ Len(stages') - Len(stages) = Len(second.schedule)
                 /\ Len(tasks') - Len(tasks) = TaskCount(second.schedule)
                 /\ Len(StagesOfProject(stages', second.project_id))
                       = Len(StagesOfProject(stages, second.project_id))
                         + Len(second.schedule)
                 /\ second.stages_after - second.stages_before
                       = first.stages_after - first.stages_before
                 /\ second.tasks_after - second.tasks_before
                       = first.tasks_after - first.tasks_before
                 /\ (first.proj_rows_before <= 1 /\ first.stages_before = 0) =>
                       /\ Len(StagesOfProject(stages', second.project_id))
                             = 2 * Len(StagesOfProject(stages, first.project_id))
                       /\ Len(TasksOfProject(tasks', stages', second.project_id))
                             = 2 * Len(TasksOfProject(tasks, stages, first.project_id))

C4_OneActiveMembership ==
    \A i, j \in 1..Len(project_members) :
        ( /\ project_members[i].user_id = project_members[j].user_id
          /\ project_members[i].project_id = project_members[j].project_id
          /\ project_members[i].status = "Active"
          /\ project_members[j].status = "Active" ) => i = j

\* ------------------------------------------------------------------ C6
IsChat(l) == l.op = "send_chat_update"

\* C6: every chat/send request, whatever its context, inserts exactly one ChatLog row
\* with the project id, user id and raw message of the request, before any LLM call,
\* task update or lead insert of the request; and no request ever changes or removes a
\* ChatLog row.
C6_Step ==
    /\ IsPrefix(chat_logs, chat_logs')
    /\ ~IsChat(last') => chat_logs' = chat_logs
    /\ IsChat(last') =>
          /\ chat_logs' = Append(chat_logs,
                                 [project_id |-> last'.req.project_id,
                                  user_id |-> last'.req.user_id,
                                  message_text |-> last'.req.message])
          /\ last'.effects[1] = "chat_logs.insert"
          /\ \A k \in 2..Len(last'.effects) : last'.effects[k] # "chat_logs.insert"

C6_ChatLogFirst == [][C6_Step]_vars

\* An "Execution" message led to a task update, and its one ChatLog row is in the table.
C6_Witness ==
    /\ IsChat(last) /\ last.status = "Action Taken"
    /\ last.effects = <<"chat_logs.insert", "tasks.select", "llm", "tasks.update">>
    /\ Len(chat_logs) = 1
    /\ chat_logs[1].project_id = last.req.project_id
    /\ \E i \in 1..Len(tasks) : tasks[i].status = "Completed"

\* ------------------------------------------------------------------ C7
IsSalesChat(l) == IsChat(l) /\ l.req.context = "Sales"

\* C7: a "Sales" chat whose qualifier score is 0 creates no Lead row and answers
\* "Message Logged"; a score in 1..100 creates exactly one Lead row of the request's
\* project with lead_score equal to the score, and answers "Lead Detected".
C7_Step ==
    IsSalesChat(last') =>
        LET score == last'.req.score
        IN /\ score = 0 => /\ leads' = leads
                           /\ last'.status = "Message Logged"
           /\ score \in 1..100 =>
                 /\ Len(leads') = Len(leads) + 1
                 /\ SubSeq(leads', 1, Len(leads)) = leads
                 /\ leads'[Len(leads')].project_id = last'.req.project_id
                 /\ leads'[Len(leads')].lead_score = score
                 /\ leads'[Len(leads')].source = "Chat"
                 /\ last'.status = "Lead Detected"

C7_SalesThreshold == [][C7_Step]_vars

\* A "Sales" chat with score 100 created the Lead row.
C7_Witness ==
    /\ IsSalesChat(last) /\ last.req.score = 100 /\ last.status = "Lead Detected"
    /\ Len(leads) = 1 /\ leads[1].lead_score = 100
    /\ leads[1].project_id = last.req.project_id

\* A "Sales" chat with score 0 created no Lead row.
C7_WitnessZero ==
    /\ IsSalesChat(last) /\ last.req.score = 0 /\ ~last.req.failed
    /\ last.status = "Message Logged" /\ leads = <<>>

\* ------------------------------------------------------------------ C8
\* C8: a failed qualification gives score 0, and every caller of the qualifier (the
\* "Sales" chat and /leads/ingest) creates a Lead row only for a score above 0: no
\* Lead row comes from a failed qualification.
C8_LeadOnlyIfScored ==
    /\ (last.op \in {"send_chat_update", "ingest_lead"} /\ last.req.failed)
          => last.req.score = 0
    /\ \A i \in 1..Len(leads) : leads[i].lead_score > 0

\* ------------------------------------------------------------------ C11
Generated(id) == taskOrigin[id] = "save_recursive_tasks"

Added(id) == taskOrigin[id] = "add_task"

\* The Task rows of a project: those under its stages and those that name it.
ProjectTasks(pid) ==
    SelectSeq(tasks, LAMBDA t :
        \/ t.project_id = pid
        \/ \E i \in 1..Len(stages) : stages[i].id = t.stage_id /\ stages[i].project_id = pid)

\* The rows the persister wrote carry no project_id and none of the scheduler's
\* columns; the rows add-task wrote carry the project_id of their stage.
C11_Rows ==
    \A i \in 1..Len(tasks) :
        LET t == tasks[i]
        IN /\ Generated(t.id) => t.project_id = NULL
           /\ Added(t.id) =>
                 /\ t.project_id # NULL
                 /\ \E k \in 1..Len(stages) :
                       stages[k].id = t.stage_id /\ stages[k].project_id = t.project_id

\* What the "Execution" chat and auto-schedule read by project_id holds rows of
\* add-task only.
C11_Reads ==
    /\ \A pid \in RequestProjectIds :
          \A i \in 1..Len(tasks_by_project(tasks, pid)) :
              Added(tasks_by_project(tasks, pid)[i].id)
    /\ (last.op = "send_chat_update" /\ last.req.context = "Execution") =>
          \A i \in 1..Len(last.req.task_context) : Added(last.req.task_context[i].id)
    /\ last.op = "auto_schedule" =>
          \A i \in 1..Len(last.req.read) : Added(last.req.read[i])

\* An auto-schedule request for a project all of whose tasks were generated answers
\* "No tasks to schedule" and leaves the table of tasks as it was.
C11_Step ==
    ( /\ last'.op = "auto_schedule"
      /\ \A i \in 1..Len(ProjectTasks(last'.project_id)) :
            Generated(ProjectTasks(last'.project_id)[i].id) )
    => /\ last'.status = "No tasks to schedule"
       /\ last'.req.tasks_updated = 0
       /\ tasks' = tasks

\* C11: the Task rows the recursive persister writes carry no project_id, the rows
\* /tasks/add writes carry the project_id of their stage; so after any sequence of
\* requests the tasks that the "Execution" chat and auto-schedule select by project_id
\* are rows of /tasks/add only, never rows of generate-schedule, and auto-schedule for
\* a project whose only tasks come from generate-schedule answers "No tasks to
\* schedule" without updating a task.
C11_GeneratedTasksUnseen == [][C11_Rows' /\ C11_Reads' /\ C11_Step]_vars

\* auto-schedule answered "No tasks to schedule" for project 1, which has a team
\* member and tasks that are "Not Started", all of them from generate-schedule.
C11_Witness ==
    /\ last.op = "auto_schedule" /\ last.project_id = 1
    /\ last.status = "No tasks to schedule"
    /\ ProjectTasks(1) # <<>>
    /\ \A i \in 1..Len(ProjectTasks(1)) :
          Generated(ProjectTasks(1)[i].id) /\ ProjectTasks(1)[i].status = "Not Started"
    /\ \E m \in 1..Len(project_members) : project_members[m].project_id = 1

\* auto-schedule read a task of /tasks/add and scheduled it, next to a generated task
\* of the same stage that it did not read.
C11_WitnessAdded ==
    /\ last.op = "auto_schedule" /\ last.status = "Scheduled"
    /\ last.req.read # <<>> /\ last.req.tasks_updated = 1
    /\ \E i, j \in 1..Len(tasks) :
          /\ Generated(tasks[i].id) /\ Added(tasks[j].id)
          /\ tasks[i].stage_id = tasks[j].stage_id
          /\ tasks[j].status = "In Progress" /\ tasks[j].end_date = strftime(Today + 2)

\* The "Execution" chat ran for project 1 with generated tasks only: its task context
\* is empty.
C11_WitnessChat ==
    /\ last.op = "send_chat_update" /\ last.req.context = "Execution"
    /\ last.req.project_id = 1 /\ last.req.task_context = <<>>
    /\ ProjectTasks(1) # <<>>

====
